---- MODULE Spec2Model ----
(***************************************************************************)
(* Progressive planet catalog loading and nearest-planet detection.        *)
(*                                                                         *)
(* ProximityDetector (getClosestPlanet, hasClosestPlanetChanged, reset),   *)
(* App.init with the functions it awaits, PlanetSelector.loadPlanets and   *)
(* PlanetSelector.show are translated from the JavaScript source.          *)
(* PlanetDataService (the record store and the tiered cluster loader) and  *)
(* ExoplanetField are not part of the source tree; they are modelled from  *)
(* the design document (sections 4.1 to 4.4).                              *)
(*                                                                         *)
(* Representation.  A JavaScript value that may be null or absent is a     *)
(* sequence of length at most one: <<>> is null/absent, <<v>> is v.        *)
(* Lengths are integers in scaled world units; the catalog and the query   *)
(* points are chosen so that every Euclidean distance is an integer.       *)
(***************************************************************************)
EXTENDS Integers, Sequences, FiniteSets, TLC

VARIABLES
    planets,            \* PlanetDataService: the record store, in iteration order
    manifest,           \* PlanetDataService.initialize: "idle" | "loaded" | "failed"
    tierState,          \* per tier: "pending" | "loading" | "loaded"
    shardState,         \* per shard: "pending" | "fetching" | "done" | "failed"
    pc,                 \* position of App.init / PlanetSelector.loadPlanets
    filteredPlanets,    \* PlanetSelector.filteredPlanets
    reloads,            \* number of full reloads so far
    loadingManager,     \* LoadingManager: status, isReadyToFinish, completedSteps
    animating,          \* App.animate() has been started
    generation,         \* number of load sequences PlanetSelector has started
    shardGen,           \* per shard: the generation that requested its fetch
    seeded,             \* the solar seed was put into the present store
    lastClosestPlanet,  \* ProximityDetector.lastClosestPlanet
    lastUpdateTime,     \* ProximityDetector.lastUpdateTime
    searchRadius,       \* ProximityDetector.searchRadius
    now,                \* Date.now()
    kind,               \* what the last step was: "idle" | "scan" | "throttled" | "compared"
    ret,                \* value returned by the getClosestPlanet call of the last step
    callPos,            \* query point of that call
    prevUpdateTime,     \* lastUpdateTime as that call found it
    current,            \* argument of the hasClosestPlanetChanged call of the last step
    changed,            \* value returned by that call
    lastScanRet,        \* value returned by the most recent scanning call (none after reset)
    cacheTime,          \* time of the latest scan or reset whose outcome lastClosestPlanet holds
    lastReset,          \* pending: no scan has run since the latest reset(); dropped: it cleared a result
    lastRet,            \* value returned by the latest getClosestPlanet call of a comparing caller
    preceding,          \* value returned by that caller's call before the latest one
    initPc,             \* position of App.init: "constructed" | "awaiting" | "finished" | "failed"
    loading,            \* LoadingManager: its fields and the calls it has received
    criteria,           \* PlanetSelector: the values of the search and filter inputs
    dialog              \* PlanetExplorationDialog: its fields, and the chat requests in flight

vars == <<planets, manifest, tierState, shardState, pc, filteredPlanets, reloads,
          loadingManager, animating, generation, shardGen, seeded,
          lastClosestPlanet, lastUpdateTime, searchRadius, now,
          kind, ret, callPos, prevUpdateTime, current, changed,
          lastScanRet, cacheTime, lastReset, lastRet, preceding, initPc, loading, criteria,
          dialog>>

loaderVars == <<manifest, tierState, shardState, pc, filteredPlanets, reloads,
                loadingManager, animating, generation, shardGen, seeded>>
\* the loading screen
screenVars == <<initPc, loading>>

\* the user interface around the loader and the detector
uiVars == <<screenVars, criteria, dialog>>

\* what a caller that compares successive results has been returned
callHistory == <<lastRet, preceding>>

detectorVars == <<lastClosestPlanet, lastUpdateTime, searchRadius, lastScanRet, cacheTime,
                  lastReset, callHistory>>

----------------------------------------------------------------------------
(* Bounds of the model *)

MaxLoadTicks == 24      \* steps of the clock while the loading screen is up
LoadTickMs == 500       \* milliseconds per such step
MaxShows == 3           \* calls of show() of the exploration dialog
MaxSends == 3           \* chat messages sent
MaxTicks == 3           \* clock ticks explored
TickMs == 250           \* milliseconds per clock tick
StartTime == 1000       \* Date.now() at construction
MaxReloads == 1         \* full reloads explored
MaxScanLen == 2         \* store length in the scan-only specification
MaxLoads == 2           \* load sequences PlanetSelector starts

(* Program constants *)

globalScale == 10000
sceneScale == 10
updateThrottle == 500
defaultSearchRadius == 5000000
minimumLoadTime == 10000
totalSteps == 4

----------------------------------------------------------------------------
(* JavaScript values *)

None == <<>>
Some(v) == <<v>>

Vec(x, y, z) == [x |-> x, y |-> y, z |-> z]
Origin == Vec(0, 0, 0)

\* a coordinate triple as it appears in the JSON data: each component is a
\* number <<n>> or null <<>>
Triple(x, y, z) == Some(Vec(x, y, z))
NullTriple == Triple(None, None, None)

\* ToNumber applied by the * operator: null * k = 0
Num(c) == IF c = None THEN 0 ELSE c[1]

Abs(n) == IF n < 0 THEN -n ELSE n

RECURSIVE GCD(_, _)
GCD(a, b) == IF b = 0 THEN a ELSE GCD(b, a % b)

ISqrt(n) == CHOOSE r \in 0..n : r * r <= n /\ (r + 1) * (r + 1) > n

\* THREE.Vector3.distanceTo: sqrt(dx^2 + dy^2 + dz^2), computed on the
\* components divided by their common factor to stay within machine integers
distanceTo(a, b) ==
    LET dx == Abs(a.x - b.x)
        dy == Abs(a.y - b.y)
        dz == Abs(a.z - b.z)
        g  == GCD(GCD(dx, dy), dz)
    IN  IF g = 0 THEN 0
        ELSE g * ISqrt((dx \div g) * (dx \div g) + (dy \div g) * (dy \div g)
                       + (dz \div g) * (dz \div g))

----------------------------------------------------------------------------
(* Records *)

Planet(name, host, coords, position, attr) ==
    [pl_name |-> name, hostname |-> host, coordinates_3d |-> coords,
     position |-> position, attr |-> attr]

Key(r) == <<r.pl_name, r.hostname>>

RECURSIVE Keys(_)
Keys(s) == IF s = <<>> THEN {} ELSE {Key(Head(s))} \cup Keys(Tail(s))

Range(s) == {s[i] : i \in 1..Len(s)}

\* Store.get(key)
RECURSIVE Get(_, _)
Get(s, k) ==
    IF s = <<>> THEN None
    ELSE IF Key(Head(s)) = k THEN Some(Head(s)) ELSE Get(Tail(s), k)

----------------------------------------------------------------------------
(* The catalog: the external data the loader reads *)

\* solar_system.json: coordinates_3d is present with null components, the
\* position field holds the orbit position in AU
Earth == Planet("Earth", "Sun", NullTriple, Triple(Some(1), Some(0), Some(0)), "seed")

SolarSeed == <<Earth>>

ProximaB  == Planet("Proxima b", "Proxima", Triple(Some(4), Some(0), Some(0)), None, "catalog")
EarthCat  == Planet("Earth", "Sun", Triple(Some(2), Some(0), Some(0)), None, "catalog")
KeplerB   == Planet("Kepler b", "Kepler", Triple(Some(50), Some(0), Some(0)), None, "catalog")
KeplerB2  == Planet("Kepler b", "K2", Triple(Some(49), Some(0), Some(0)), None, "catalog")
TauB      == Planet("Tau b", "Tau", Triple(Some(30), Some(40), Some(0)), None, "catalog")
Rogue     == Planet("Rogue", "Field", None, None, "catalog")
Ghost     == Planet("Ghost", "Field", NullTriple, None, "catalog")
Moonless  == Planet("Vulcan", "Sun", None, None, "catalog")

\* cluster_index.json: the tiers in increasing distance, each a set of shards
Tiers == <<{"nearby_quad1", "nearby_quad2"}, {"medium_quad1"}, {"far_quad1"}>>

NumTiers == Len(Tiers)

Shards == UNION {Tiers[i] : i \in 1..NumTiers}

ShardPayload(s) ==
    CASE s = "nearby_quad1" -> <<ProximaB, EarthCat>>
      [] s = "nearby_quad2" -> <<KeplerB, ProximaB>>
      [] s = "medium_quad1" -> <<KeplerB2, Rogue, TauB>>
      [] s = "far_quad1"    -> <<Ghost, Moonless>>

\* spacecraft positions passed to getClosestPlanet
QueryPoints == {Origin, Vec(4950000, 0, 0)}

----------------------------------------------------------------------------
(* Coordinate Reconciler, Deduplicator and Record Store (design sections   *)
(* 4.1 to 4.3)                                                             *)

FrameAValid(r) ==
    /\ r.coordinates_3d # None
    /\ r.coordinates_3d[1].x # None
    /\ r.coordinates_3d[1].y # None
    /\ r.coordinates_3d[1].z # None

isSolarMember(r) == r.hostname = "Sun"

Scaled(t) == Vec(Num(t.x) * sceneScale * globalScale,
                 Num(t.y) * sceneScale * globalScale,
                 Num(t.z) * sceneScale * globalScale)

\* reconcile(rawRecord) -> CanonicalPosition | RejectReason
Reconcile(r) ==
    IF FrameAValid(r) THEN Some(Scaled(r.coordinates_3d[1]))
    ELSE IF isSolarMember(r) /\ r.position # None THEN Some(Scaled(r.position[1]))
    ELSE None

\* admit without the reconciliation gate
AdmitNoReconcile(store, r) == Key(r) \notin Keys(store)

\* admit(rawRecord) -> bool
Admit(store, r) == Reconcile(r) # None /\ Key(r) \notin Keys(store)

\* insert(key, record): a second insert for an existing key is ignored
Insert(store, r) == IF Key(r) \in Keys(store) THEN store ELSE Append(store, r)

\* Ingest without the reconciliation gate
IngestNoReconcile(store, r) ==
    IF Key(r) \in Keys(store) THEN store ELSE Append(store, r)

\* Ingest without the identity check
IngestAppend(store, r) ==
    IF Reconcile(r) # None THEN Append(store, r) ELSE store

\* Ingest where a later record replaces the stored one
IngestOverwrite(store, r) ==
    IF Reconcile(r) = None THEN store
    ELSE IF Key(r) \in Keys(store)
    THEN [i \in 1..Len(store) |-> IF Key(store[i]) = Key(r) THEN r ELSE store[i]]
    ELSE Append(store, r)

\* Ingest where a later record takes the place of the stored one at the end
IngestLastWins(store, r) ==
    IF Reconcile(r) = None THEN store
    ELSE Append(SelectSeq(store, LAMBDA x : Key(x) # Key(r)), r)

\* reconcile -> dedup -> insert of one record
Ingest(store, r) == IF Admit(store, r) THEN Insert(store, r) ELSE store

RECURSIVE IngestAll(_, _)
IngestAll(store, recs) ==
    IF recs = <<>> THEN store
    ELSE IngestAll(Ingest(store, Head(recs)), Tail(recs))

----------------------------------------------------------------------------
(* ProximityDetector *)

\* the position the scan derives for one planet (loop body, first part);
\* None is the `continue` branch
planetWorldPos(planet) ==
    IF planet.coordinates_3d # None
    THEN Some(Scaled(planet.coordinates_3d[1]))
    ELSE IF planet.hostname = "Sun" /\ planet.position # None
    THEN Some(Scaled(planet.position[1]))
    ELSE None

\* a mesh of the field: child.userData.planetData is the record it was made for
Mesh(id, name) == [id |-> id, planetData |-> [pl_name |-> name]]

\* exoplanetField.meshGroup: no mesh for some records, two for one name
meshGroup == <<Mesh("m1", "Earth"), Mesh("m2", "Kepler b"), Mesh("m3", "Kepler b")>>

\* meshGroup.traverse: foundMesh is the last child whose name matches
RECURSIVE traverse(_, _, _)
traverse(children, name, foundMesh) ==
    IF children = <<>> THEN foundMesh
    ELSE traverse(Tail(children), name,
                  IF Head(children).planetData.pl_name = name
                  THEN Some(Head(children)) ELSE foundMesh)

findMesh(planet) == traverse(meshGroup, planet.pl_name, None)

\* closestMesh that keeps the mesh of the candidate before when none is found
closestMeshKept(closest, foundMesh) ==
    IF foundMesh = None /\ closest # None THEN closest[1].mesh ELSE foundMesh

\* the mesh is reset for each new closest planet
closestMesh(closest, foundMesh) == foundMesh

Result(planet, distance, worldPos, mesh) ==
    [planet |-> planet, distance |-> distance, worldPosition |-> worldPos, mesh |-> mesh]

\* IsCloser with the radius test made inclusive
IsCloserLe(distance, radius, closest) ==
    distance <= radius /\ (closest = None \/ distance < closest[1].distance)

\* the test that makes a planet the new closest one; closest = None stands
\* for closestDistance = Infinity
IsCloser(distance, radius, closest) ==
    distance < radius /\ (closest = None \/ distance < closest[1].distance)

\* the for loop over allPlanets: closest is the candidate kept so far
RECURSIVE ScanLoop(_, _, _, _)
ScanLoop(allPlanets, position, radius, closest) ==
    IF allPlanets = <<>> THEN closest
    ELSE LET planet == Head(allPlanets)
             wp     == planetWorldPos(planet)
         IN  IF wp = None
             THEN ScanLoop(Tail(allPlanets), position, radius, closest)
             ELSE LET distance == distanceTo(position, wp[1])
                  IN  IF IsCloser(distance, radius, closest)
                      THEN ScanLoop(Tail(allPlanets), position, radius,
                                    Some(Result(planet, distance, wp[1],
                                                closestMesh(closest, findMesh(planet)))))
                      ELSE ScanLoop(Tail(allPlanets), position, radius, closest)

\* Throttled with the interval test made inclusive
ThrottledLe(t, last) == t - last <= updateThrottle

\* the throttle test
Throttled(t, last) == t - last < updateThrottle

NoCompare == current' = None /\ changed' = FALSE

NoCall ==
    /\ kind' = "idle" /\ ret' = None /\ callPos' = Origin /\ prevUpdateTime' = 0
    /\ NoCompare

NoReset == [pending |-> FALSE, dropped |-> FALSE]

getClosestPlanet(position) ==
    /\ callPos' = position
    /\ prevUpdateTime' = lastUpdateTime
    /\ IF Throttled(now, lastUpdateTime)
       THEN /\ kind' = "throttled"
            /\ ret' = lastClosestPlanet
            /\ UNCHANGED <<lastClosestPlanet, lastUpdateTime, lastScanRet, cacheTime,
                           lastReset>>
       ELSE /\ kind' = "scan"
            /\ lastUpdateTime' = now
            /\ IF Len(planets) = 0
               THEN /\ ret' = None
                    /\ cacheTime' = IF lastClosestPlanet = None THEN now ELSE cacheTime
                    /\ UNCHANGED lastClosestPlanet
               ELSE /\ ret' = ScanLoop(planets, position, searchRadius, None)
                    /\ lastClosestPlanet' = ret'
                    /\ cacheTime' = now
            /\ lastScanRet' = ret'
            /\ lastReset' = NoReset
    /\ NoCompare
    /\ UNCHANGED <<planets, loaderVars, uiVars, searchRadius, now>>

\* hasClosestPlanetChanged(currentClosest): the previous value is the cache
hasClosestPlanetChanged(currentClosest) ==
    IF lastClosestPlanet = None /\ currentClosest = None THEN FALSE
    ELSE IF lastClosestPlanet = None \/ currentClosest = None THEN TRUE
    ELSE lastClosestPlanet[1].planet.pl_name # currentClosest[1].planet.pl_name

\* a call of hasClosestPlanetChanged
Compare(currentClosest) ==
    /\ kind' = "compared"
    /\ current' = currentClosest
    /\ changed' = hasClosestPlanetChanged(currentClosest)
    /\ ret' = None
    /\ callPos' = Origin
    /\ prevUpdateTime' = 0
    /\ UNCHANGED <<planets, loaderVars, detectorVars, uiVars, now>>

\* reset that leaves the cache as it is
resetKeep ==
    /\ lastReset' = [pending |-> TRUE, dropped |-> lastClosestPlanet # None]
    /\ cacheTime' = now
    /\ lastScanRet' = None
    /\ NoCall
    /\ UNCHANGED <<planets, loaderVars, uiVars, lastClosestPlanet, lastUpdateTime, searchRadius, now,
                   callHistory>>

reset ==
    /\ lastClosestPlanet' = None
    /\ lastReset' = [pending |-> TRUE, dropped |-> lastClosestPlanet # None]
    /\ cacheTime' = now
    /\ lastScanRet' = None
    /\ NoCall
    /\ UNCHANGED <<planets, loaderVars, uiVars, lastUpdateTime, searchRadius, now, callHistory>>

\* the clock advances
Tick ==
    /\ now < StartTime + MaxTicks * TickMs
    /\ now' = now + TickMs
    /\ NoCall
    /\ UNCHANGED <<planets, loaderVars, uiVars, lastClosestPlanet, lastUpdateTime,
                   searchRadius, lastScanRet, cacheTime, lastReset, callHistory>>

----------------------------------------------------------------------------
(* Tiered Cluster Loader (design section 4.4) and its callers *)

AllPending == [s \in Shards |-> "pending"]

NoGen == [s \in Shards |-> 0]

\* fan-out: every shard of tier i is requested, on behalf of load sequence g
StartTier(i, g) ==
    /\ tierState' = [tierState EXCEPT ![i] = "loading"]
    /\ shardState' = [s \in Shards |-> IF s \in Tiers[i] THEN "fetching" ELSE shardState[s]]
    /\ shardGen' = [s \in Shards |-> IF s \in Tiers[i] THEN g ELSE shardGen[s]]

\* Settled as soon as one shard of the tier has settled
SettledAny(i) == \E s \in Tiers[i] : shardState[s] \in {"done", "failed"}

\* Settled only if every shard of the tier succeeded
SettledAllDone(i) == \A s \in Tiers[i] : shardState[s] = "done"

Settled(i) == \A s \in Tiers[i] : shardState[s] \in {"done", "failed"}

\* loadNearbyFirst(): the nearest tier is requested unless it was requested before
loadNearbyFirst(g) ==
    IF tierState[1] = "pending" THEN StartTier(1, g)
    ELSE UNCHANGED <<tierState, shardState, shardGen>>

\* loadAllClusters(): the tiers after the nearest one are requested in order
loadAllClusters(g) ==
    IF tierState[2] = "pending" THEN StartTier(2, g)
    ELSE UNCHANGED <<tierState, shardState, shardGen>>

\* initializePlanetDataService where a manifest failure is swallowed
initializeSwallowed ==
    /\ pc = "start"
    /\ \E ok \in BOOLEAN :
         /\ manifest' = IF ok THEN "loaded" ELSE "failed"
         /\ pc' = "initialized"
    /\ NoCall
    /\ UNCHANGED <<planets, tierState, shardState, filteredPlanets, reloads, loadingManager,
                   animating, generation, shardGen, seeded, detectorVars, uiVars, now>>

\* App.initializePlanetDataService: the manifest fetch; a failure is thrown
\* into the catch of App.init, which calls LoadingManager.error
initializePlanetDataService ==
    /\ pc = "start"
    /\ \E ok \in BOOLEAN :
         /\ manifest' = IF ok THEN "loaded" ELSE "failed"
         /\ pc' = IF ok THEN "initialized" ELSE "error"
         /\ loadingManager' = IF ok THEN loadingManager
                              ELSE [loadingManager EXCEPT !.status = "Error Loading"]
    /\ NoCall
    /\ UNCHANGED <<planets, tierState, shardState, filteredPlanets, reloads,
                   animating, generation, shardGen, seeded, detectorVars, uiVars, now>>

\* createSceneObjects without the await of initializePlanetDataService
ServiceNotAwaited == pc \in {"start", "initialized"}

\* the await in App.createSceneObjects: initializePlanetDataService() has
\* resolved before loadAllPlanets() is called
ServiceInitialised == pc = "initialized"

\* App.loadAllPlanets, first part: the solar system is loaded first; a failure
\* is caught and logged, and exoplanetField.load() is then not reached
loadAllPlanets ==
    /\ ServiceInitialised
    /\ \E ok \in BOOLEAN :
         /\ planets' = IF ok THEN IngestAll(planets, SolarSeed) ELSE planets
         /\ seeded' = ok
         /\ pc' = IF ok THEN "seeded" ELSE "fieldSkipped"
    /\ NoCall
    /\ UNCHANGED <<manifest, tierState, shardState, filteredPlanets, reloads, loadingManager,
                   animating, generation, shardGen, detectorVars, uiVars, now>>

\* App.loadAllPlanets, second part: exoplanetField.load() requests the nearest
\* tier and is awaited
exoplanetFieldLoad ==
    /\ pc = "seeded"
    /\ loadNearbyFirst(generation)
    /\ pc' = "fieldLoading"
    /\ NoCall
    /\ UNCHANGED <<planets, manifest, filteredPlanets, reloads, loadingManager,
                   animating, generation, seeded, detectorVars, uiVars, now>>

\* PlanetSelector.loadPlanets up to its first await: a load sequence starts,
\* loadNearbyFirst() is called
loadPlanets ==
    /\ generation' = generation + 1
    /\ loadNearbyFirst(generation + 1)
    /\ pc' = "loadingNearby"

\* App.init without the await of createSceneObjects
FieldLoadNotAwaited == TRUE

\* the await in App.init: createSceneObjects(), and with it
\* exoplanetField.load(), has resolved
FieldLoadAwaited == tierState[1] = "loaded"

\* App.init after the await: initPlanetSelector() calls loadPlanets() without
\* awaiting it, animate() starts the frame loop, LoadingManager.finish()
initResume ==
    /\ \/ pc = "fieldLoading" /\ FieldLoadAwaited
       \/ pc = "fieldSkipped"
    /\ loadPlanets
    /\ animating' = TRUE
    /\ loadingManager' = [status |-> "Starting Mission", isReadyToFinish |-> TRUE,
                          completedSteps |-> loadingManager.completedSteps + 2]
    /\ NoCall
    /\ UNCHANGED <<planets, manifest, filteredPlanets, reloads, seeded, detectorVars, uiVars, now>>

\* PlanetSelector.show: an empty store starts a load sequence, otherwise the
\* list is rendered again
show ==
    /\ pc \in {"loadingNearby", "loadingAll", "allLoaded", "reloaded"}
    /\ IF Len(planets) = 0
       THEN /\ generation < MaxLoads
            /\ loadPlanets
       ELSE UNCHANGED <<tierState, shardState, shardGen, generation, pc>>
    /\ NoCall
    /\ UNCHANGED <<planets, manifest, filteredPlanets, reloads, loadingManager,
                   animating, seeded, detectorVars, uiVars, now>>

\* ShardFetched that may suspend after the first record of the shard
ShardFetchedPartial(s) ==
    /\ shardState[s] = "fetching"
    /\ \/ /\ planets' = Ingest(planets, Head(ShardPayload(s)))
          /\ planets' # planets
          /\ UNCHANGED shardState
       \/ \E ok \in BOOLEAN :
            /\ planets' = IF ok THEN IngestAll(planets, ShardPayload(s)) ELSE planets
            /\ shardState' = [shardState EXCEPT ![s] = IF ok THEN "done" ELSE "failed"]
    /\ NoCall
    /\ UNCHANGED <<manifest, tierState, pc, filteredPlanets, reloads, loadingManager,
                   animating, generation, shardGen, seeded, detectorVars, uiVars, now>>

\* ShardFetched where a failed fetch rejects the promise of its tier
ShardFetchedThrowing(s) ==
    /\ shardState[s] = "fetching"
    /\ \E ok \in BOOLEAN :
         /\ planets' = IF ok THEN IngestAll(planets, ShardPayload(s)) ELSE planets
         /\ shardState' = [shardState EXCEPT ![s] = IF ok THEN "done" ELSE "failed"]
         /\ tierState' = IF ok THEN tierState
                         ELSE [i \in 1..NumTiers |->
                                 IF s \in Tiers[i] THEN "rejected" ELSE tierState[i]]
    /\ NoCall
    /\ UNCHANGED <<manifest, pc, filteredPlanets, reloads, loadingManager,
                   animating, generation, shardGen, seeded, detectorVars, uiVars, now>>

\* one shard fetch completes: its records are admitted one after the other
\* without suspension, or the shard failed and is skipped
ShardFetched(s) ==
    /\ shardState[s] = "fetching"
    /\ \E ok \in BOOLEAN :
         /\ planets' = IF ok THEN IngestAll(planets, ShardPayload(s)) ELSE planets
         /\ shardState' = [shardState EXCEPT ![s] = IF ok THEN "done" ELSE "failed"]
    /\ NoCall
    /\ UNCHANGED <<manifest, tierState, pc, filteredPlanets, reloads, loadingManager,
                   animating, generation, shardGen, seeded, detectorVars, uiVars, now>>

\* join of the tier's shard fetches: the tier is complete; inside
\* loadAllClusters the next tier is started
TierComplete(i) ==
    /\ tierState[i] = "loading"
    /\ Settled(i)
    /\ IF i >= 2 /\ i < NumTiers
       THEN /\ tierState' = [tierState EXCEPT ![i] = "loaded", ![i + 1] = "loading"]
            /\ shardState' = [s \in Shards |->
                                IF s \in Tiers[i + 1] THEN "fetching" ELSE shardState[s]]
            /\ shardGen' = [s \in Shards |->
                              IF s \in Tiers[i + 1] THEN generation ELSE shardGen[s]]
       ELSE /\ tierState' = [tierState EXCEPT ![i] = "loaded"]
            /\ UNCHANGED <<shardState, shardGen>>
    /\ NoCall
    /\ UNCHANGED <<planets, manifest, pc, filteredPlanets, reloads, loadingManager,
                   animating, generation, seeded, detectorVars, uiVars, now>>

\* loadPlanets without the await
NearbyNotAwaited == TRUE

\* the await in loadPlanets: loadNearbyFirst() has resolved
NearbyAwaited == tierState[1] = "loaded"

\* PlanetSelector.loadPlanets after the await: the list is rendered and
\* loadAllClusters() is called without being awaited
loadPlanetsResume ==
    /\ pc = "loadingNearby"
    /\ NearbyAwaited
    /\ filteredPlanets' = planets
    /\ loadAllClusters(generation)
    /\ pc' = "loadingAll"
    /\ NoCall
    /\ UNCHANGED <<planets, manifest, reloads, loadingManager, animating, generation,
                   seeded, detectorVars, uiVars, now>>

\* the then() callback of loadAllClusters()
loadAllClustersThen ==
    /\ pc = "loadingAll"
    /\ \A i \in 1..NumTiers : tierState[i] = "loaded"
    /\ filteredPlanets' = planets
    /\ pc' = "allLoaded"
    /\ NoCall
    /\ UNCHANGED <<planets, manifest, tierState, shardState, reloads, loadingManager,
                   animating, generation, shardGen, seeded, detectorVars, uiVars, now>>

\* full reload: the store is torn down; the next show() finds it empty
Reload ==
    /\ pc = "allLoaded"
    /\ reloads < MaxReloads
    /\ reloads' = reloads + 1
    /\ planets' = <<>>
    /\ seeded' = FALSE
    /\ tierState' = [i \in 1..NumTiers |-> "pending"]
    /\ shardState' = AllPending
    /\ shardGen' = NoGen
    /\ pc' = "reloaded"
    /\ NoCall
    /\ UNCHANGED <<manifest, filteredPlanets, loadingManager, animating, generation,
                   detectorVars, uiVars, now>>

----------------------------------------------------------------------------
(* LoadingManager and the protocol App.init follows with it *)

\* what the constructor leaves: the progress interval runs from construction
Constructed(t) ==
    [startTime |-> t, progressAnimationId |-> TRUE, totalSteps |-> 0, completed |-> <<>>,
     isReadyToFinish |-> FALSE, status |-> "Loading", shown |-> <<>>,
     finishCalls |-> 0, errorCalls |-> 0]

\* start(totalSteps)
start(l, n, t) == [l EXCEPT !.totalSteps = n, !.completed = <<>>, !.startTime = t]

\* completeStep(stepName): completedSteps is the length of completed
completeStep(l, stepName) == [l EXCEPT !.completed = Append(@, stepName)]

stopProgressAnimation(l) == [l EXCEPT !.progressAnimationId = FALSE]

\* showStartButton(), called by the interval callback or by finish()
showStartButton(l, by) ==
    [l EXCEPT !.status = "Ready for Launch", !.shown = Append(@, by)]

\* finish() that shows the button whatever time has elapsed
finishAtOnce(l, t) ==
    showStartButton(stopProgressAnimation(
        [l EXCEPT !.isReadyToFinish = TRUE, !.finishCalls = @ + 1]), "finish")

\* finish(): the button is shown at once when the minimum time has passed,
\* otherwise it is left to the interval callback
finish(l, t) ==
    LET ready         == [l EXCEPT !.isReadyToFinish = TRUE, !.finishCalls = @ + 1]
        elapsed       == t - l.startTime
        remainingTime == IF minimumLoadTime - elapsed > 0
                         THEN minimumLoadTime - elapsed ELSE 0
    IN  IF remainingTime <= 0
        THEN showStartButton(stopProgressAnimation(ready), "finish")
        ELSE ready

\* error(message)
error(l) ==
    stopProgressAnimation([l EXCEPT !.status = "Error Loading", !.errorCalls = @ + 1])

\* the places of App.init after its await where an exception may be thrown,
\* were updateViewUI() to throw as well
ThrowPointsWithViewUI ==
    {"createSceneObjects", "initPlanetSelector", "setupUIControls", "updateViewUI", "none"}

\* the places of App.init after its await where an exception may be thrown:
\* the awaited createSceneObjects() rejects, the selector or the dialog setup
\* throws, or setupUIControls() or animate() throws
ThrowPoints == {"createSceneObjects", "initPlanetSelector", "setupUIControls", "none"}

\* App.init up to its await: start(4), the engine step, the controls step
initBegin ==
    /\ initPc = "constructed"
    /\ \E thrown \in {"SceneManager", "setupControls", "none"} :
         LET l0 == start(loading, totalSteps, now)
             l1 == IF thrown = "SceneManager" THEN l0 ELSE completeStep(l0, "Engine")
             l2 == IF thrown = "none" THEN completeStep(l1, "Controls") ELSE l1
         IN  /\ loading' = IF thrown = "none" THEN l2 ELSE error(l2)
             /\ initPc' = IF thrown = "none" THEN "awaiting" ELSE "failed"
    /\ NoCall
    /\ UNCHANGED <<planets, loaderVars, detectorVars, criteria, dialog, now>>

\* App.init after its await: the universe step, the animation step, finish()
\* and updateViewUI(); an exception at any place ends in the catch
initEnd ==
    /\ initPc = "awaiting"
    /\ \E thrown \in ThrowPoints :
         LET l3 == IF thrown \in {"createSceneObjects", "initPlanetSelector"}
                   THEN loading ELSE completeStep(loading, "Universe")
             l4 == IF thrown \in {"updateViewUI", "none"}
                   THEN finish(completeStep(l3, "Animation"), now) ELSE l3
         IN  /\ loading' = IF thrown = "none" THEN l4 ELSE error(l4)
             /\ initPc' = IF thrown = "none" THEN "finished" ELSE "failed"
    /\ NoCall
    /\ UNCHANGED <<planets, loaderVars, detectorVars, criteria, dialog, now>>

\* the callback of the progress interval
progressTick ==
    /\ loading.progressAnimationId
    /\ LET elapsed == now - loading.startTime
       IN  loading' = IF loading.isReadyToFinish /\ elapsed >= minimumLoadTime
                      THEN showStartButton(stopProgressAnimation(loading), "interval")
                      ELSE loading
    /\ NoCall
    /\ UNCHANGED <<planets, loaderVars, detectorVars, initPc, criteria, dialog, now>>

\* time passes while the loading screen is up
Elapse ==
    /\ initPc # "constructed"
    /\ now < StartTime + MaxLoadTicks * LoadTickMs
    /\ now' = now + LoadTickMs
    /\ NoCall
    /\ UNCHANGED <<planets, loaderVars, detectorVars, uiVars>>

NextScreen ==
    \/ initBegin
    \/ initEnd
    \/ progressTick
    \/ Elapse

----------------------------------------------------------------------------
(* The system *)

DetectorInit ==
    /\ lastClosestPlanet = None
    /\ lastUpdateTime = 0
    /\ now = StartTime
    /\ kind = "idle"
    /\ ret = None
    /\ callPos = Origin
    /\ prevUpdateTime = 0
    /\ current = None
    /\ changed = FALSE
    /\ lastScanRet = None
    /\ cacheTime = 0
    /\ lastReset = NoReset
    /\ lastRet = None
    /\ preceding = None

\* the filter inputs as createUI and resetFilters set them
NoCriteria == [name |-> "", minHabitability |-> 0, maxDistance |-> 1000]

\* dataService.filter(criteria): the stored records that match; the records
\* of the catalog pass the habitability and distance limits at their reset
\* values, the name is matched against the display name
filter(store, c) ==
    SelectSeq(store, LAMBDA r : c.name = "" \/ r.pl_name = c.name)

\* the names a user searches for
SearchNames == {"", "Kepler b", "Proxima b"}

SelectorCreated == pc \in {"loadingNearby", "loadingAll", "allLoaded", "reloaded"}

\* PlanetSelector.applyFilters, after an input event changed an input
applyFilters ==
    /\ SelectorCreated
    /\ \E searchQuery \in SearchNames :
         /\ criteria' = [criteria EXCEPT !.name = searchQuery]
         /\ filteredPlanets' = filter(planets, criteria')
    /\ NoCall
    /\ UNCHANGED <<planets, manifest, tierState, shardState, pc, reloads, loadingManager,
                   animating, generation, shardGen, seeded, detectorVars, screenVars, dialog,
                   now>>

\* PlanetSelector.resetFilters
resetFilters ==
    /\ SelectorCreated
    /\ criteria' = NoCriteria
    /\ filteredPlanets' = planets
    /\ NoCall
    /\ UNCHANGED <<planets, manifest, tierState, shardState, pc, reloads, loadingManager,
                   animating, generation, shardGen, seeded, detectorVars, screenVars, dialog,
                   now>>

\* PlanetExplorationDialog after its constructor; showing counts the calls
\* of show(), pending holds the chat requests the AI service has not answered
DialogConstructed ==
    [currentPlanet |-> None, visible |-> FALSE, chatHistory |-> <<>>, showing |-> 0,
     pending |-> {}, sent |-> 0]

\* the planets a user clicks on
ClickedPlanets == {ProximaB, KeplerB}

\* an entry of chatHistory, with the planet and the showing it was written for
ChatMessage(role, planetData, showing) ==
    [role |-> role, planet |-> planetData.pl_name, showing |-> showing]

\* PlanetExplorationDialog.show(planetData): the chat interface is set up anew
showDialog ==
    /\ dialog.showing < MaxShows
    /\ \E planetData \in ClickedPlanets :
         dialog' = [dialog EXCEPT !.currentPlanet = Some(planetData), !.visible = TRUE,
                                  !.showing = @ + 1]
    /\ NoCall
    /\ UNCHANGED <<planets, loaderVars, detectorVars, screenVars, criteria, now>>

\* PlanetExplorationDialog.hide()
hideDialog ==
    /\ dialog.visible
    /\ dialog' = [dialog EXCEPT !.visible = FALSE, !.chatHistory = <<>>,
                                !.currentPlanet = None]
    /\ NoCall
    /\ UNCHANGED <<planets, loaderVars, detectorVars, screenVars, criteria, now>>

\* sendChatMessage up to its await: the send button of the present showing is
\* enabled, the user message is pushed and the request goes out
sendChatMessage ==
    /\ dialog.visible
    /\ dialog.sent < MaxSends
    /\ \A q \in dialog.pending : q.showing # dialog.showing
    /\ LET planetData == dialog.currentPlanet[1]
       IN  dialog' = [dialog EXCEPT
                        !.chatHistory = Append(@, ChatMessage("user", planetData, dialog.showing)),
                        !.pending = @ \cup {ChatMessage("assistant", planetData, dialog.showing)},
                        !.sent = @ + 1]
    /\ NoCall
    /\ UNCHANGED <<planets, loaderVars, detectorVars, screenVars, criteria, now>>

\* sendChatMessage after its await: the reply is pushed, or the request failed
chatReply ==
    /\ \E q \in dialog.pending : \E ok \in BOOLEAN :
         dialog' = [dialog EXCEPT
                      !.pending = @ \ {q},
                      !.chatHistory = IF ok THEN Append(@, q) ELSE @]
    /\ NoCall
    /\ UNCHANGED <<planets, loaderVars, detectorVars, screenVars, criteria, now>>

NextDialog ==
    \/ showDialog
    \/ hideDialog
    \/ sendChatMessage
    \/ chatReply

\* new LoadingManager() in the constructor of App, which then calls init()
ScreenInit ==
    /\ initPc = "constructed"
    /\ loading = Constructed(StartTime)
    /\ criteria = NoCriteria
    /\ dialog = DialogConstructed

Init ==
    /\ planets = <<>>
    /\ manifest = "idle"
    /\ tierState = [i \in 1..NumTiers |-> "pending"]
    /\ shardState = AllPending
    /\ pc = "start"
    /\ filteredPlanets = <<>>
    /\ reloads = 0
    /\ loadingManager = [status |-> "Building Universe", isReadyToFinish |-> FALSE,
                         completedSteps |-> 2]
    /\ animating = FALSE
    /\ generation = 0
    /\ shardGen = NoGen
    /\ seeded = FALSE
    /\ searchRadius = defaultSearchRadius
    /\ DetectorInit
    /\ ScreenInit

\* the frame loop passes the spacecraft position to the detector
Query ==
    /\ animating
    /\ \E position \in QueryPoints : getClosestPlanet(position)
    /\ UNCHANGED callHistory

Fetch == \E s \in Shards : ShardFetched(s)

Join == \E i \in 1..NumTiers : TierComplete(i)

Next ==
    \/ initializePlanetDataService
    \/ loadAllPlanets
    \/ exoplanetFieldLoad
    \/ initResume
    \/ show
    \/ Fetch
    \/ Join
    \/ loadPlanetsResume
    \/ loadAllClustersThen
    \/ Reload
    \/ Query
    \/ reset
    \/ Tick

Spec == Init /\ [][Next]_vars

----------------------------------------------------------------------------
(* The loader on its own, with the scheduling the event loop provides: a   *)
(* fetch settles, and a continuation whose promise has resolved runs       *)

NextLoad ==
    \/ initializePlanetDataService
    \/ loadAllPlanets
    \/ exoplanetFieldLoad
    \/ initResume
    \/ show
    \/ Fetch
    \/ Join
    \/ loadPlanetsResume
    \/ loadAllClustersThen
    \/ Reload

\* the loader together with a user who changes the filters of the selector
NextFilter ==
    \/ initializePlanetDataService
    \/ loadAllPlanets
    \/ exoplanetFieldLoad
    \/ initResume
    \/ show
    \/ Fetch
    \/ Join
    \/ loadPlanetsResume
    \/ loadAllClustersThen
    \/ Reload
    \/ applyFilters
    \/ resetFilters

SpecFilter == Init /\ [][NextFilter]_vars

\* the exploration dialog on its own
SpecDialog == Init /\ [][NextDialog]_vars

\* the loading screen on its own: the interval callback keeps being called
\* while the interval is set, time passes, and an awaited promise settles
SpecScreen ==
    /\ Init
    /\ [][NextScreen]_vars
    /\ WF_vars(progressTick)
    /\ WF_vars(Elapse)
    /\ WF_vars(initEnd)

SpecLoad ==
    /\ Init
    /\ [][NextLoad]_vars
    /\ WF_vars(Fetch)
    /\ WF_vars(Join)
    /\ WF_vars(initResume)
    /\ WF_vars(loadPlanetsResume)
    /\ WF_vars(loadAllClustersThen)

----------------------------------------------------------------------------
(* The scan on its own: getClosestPlanet over any list the data service    *)
(* may hand it, for any search radius                                      *)

ScanRecords == {Earth, ProximaB, KeplerB, KeplerB2, Ghost, Rogue}

ScanRadii == {defaultSearchRadius, defaultSearchRadius + 2}

ScanPoints == {Origin, Vec(-1, 0, 0), Vec(-4950000, 0, 0)}

\* the results a caller may hold and pass to hasClosestPlanetChanged
ScanResults ==
    {None} \cup {Some(Result(r, distanceTo(Origin, planetWorldPos(r)[1]),
                             planetWorldPos(r)[1], findMesh(r))) :
                   r \in {q \in ScanRecords : planetWorldPos(q) # None}}

ScanStores == UNION {[1..n -> ScanRecords] : n \in 0..MaxScanLen}

InitScan ==
    /\ planets \in ScanStores
    /\ manifest = "loaded"
    /\ tierState = [i \in 1..NumTiers |-> "loaded"]
    /\ shardState = [s \in Shards |-> "done"]
    /\ pc = "scanOnly"
    /\ filteredPlanets = <<>>
    /\ reloads = 0
    /\ loadingManager = [status |-> "Starting Mission", isReadyToFinish |-> TRUE,
                         completedSteps |-> 4]
    /\ animating = TRUE
    /\ generation = 1
    /\ shardGen = [s \in Shards |-> 1]
    /\ seeded = FALSE
    /\ searchRadius \in ScanRadii
    /\ DetectorInit
    /\ ScreenInit

QueryScan ==
    /\ \E position \in ScanPoints : getClosestPlanet(position)
    /\ UNCHANGED callHistory

CompareScan == \E currentClosest \in ScanResults : Compare(currentClosest)

NextScan ==
    \/ QueryScan
    \/ CompareScan
    \/ reset
    \/ Tick

SpecScan == InitScan /\ [][NextScan]_vars

----------------------------------------------------------------------------
(* A caller that detects transitions: it queries, and passes what it was   *)
(* returned to hasClosestPlanetChanged before anything else happens        *)

CompareRecords == {ProximaB, KeplerB, Rogue}

CompareStores == UNION {[1..n -> CompareRecords] : n \in 0..MaxScanLen}

InitCompare ==
    /\ InitScan
    /\ planets \in CompareStores
    /\ searchRadius = defaultSearchRadius

\* the caller's getClosestPlanet call; what it was returned is remembered
QueryTracked ==
    /\ \E position \in ScanPoints : getClosestPlanet(position)
    /\ preceding' = lastRet
    /\ lastRet' = ret'

\* the caller passes the value just returned to hasClosestPlanetChanged
CompareReturned ==
    /\ kind \in {"scan", "throttled"}
    /\ Compare(ret)

\* the store is emptied or filled again between two calls
StoreChanges ==
    /\ planets' \in {<<>>, <<ProximaB>>, <<KeplerB, ProximaB>>}
    /\ planets' # planets
    /\ NoCall
    /\ UNCHANGED <<loaderVars, detectorVars, uiVars, now>>

NextCompare ==
    \/ QueryTracked
    \/ CompareReturned
    \/ StoreChanges
    \/ reset
    \/ Tick

SpecCompare == InitCompare /\ [][NextCompare]_vars

----------------------------------------------------------------------------
(* Properties *)

\* the position the scan uses for the i-th stored record
PosOf(i) == planetWorldPos(planets[i])

\* the i-th stored record is one the scan considers and lies within the radius
Eligible(i) ==
    PosOf(i) # None /\ distanceTo(callPos, PosOf(i)[1]) < searchRadius

\* ret is what a scan of the current store from callPos has to return
FreshResult ==
    IF \A i \in 1..Len(planets) : ~Eligible(i)
    THEN ret = None
    ELSE /\ ret # None
         /\ \E i \in 1..Len(planets) :
              /\ planets[i] = ret[1].planet
              /\ Eligible(i)
              /\ ret[1].distance = distanceTo(callPos, PosOf(i)[1])
         /\ \A j \in 1..Len(planets) :
              Eligible(j) => ret[1].distance <= distanceTo(callPos, PosOf(j)[1])

ThrottleIdentity ==
    kind = "throttled" => ret = lastScanRet

\* C3: a call made at least the throttle interval after the previous scanning
\* call, and the first call ever, scans, and its result is the nearest record
\* of the store as it is at that call, from the query point of that call.
ThrottleFreshness ==
    (kind # "idle" /\ now - prevUpdateTime >= updateThrottle) =>
      (kind = "scan" /\ FreshResult)

\* a rescan, one interval or more after an earlier scan, returns a record that
\* only the medium tier brought in
ThrottleFreshnessWitness ==
    /\ kind = "scan"
    /\ prevUpdateTime >= StartTime
    /\ ret # None
    /\ ret[1].planet = KeplerB2

\* C4: every value returned was produced by a scan that ran no more than one
\* throttle interval before the call that returns it.
BoundedStaleness ==
    kind = "throttled" => now - cacheTime <= updateThrottle

\* C5: the position used for a record is Frame A if and only if Frame A is
\* present with three finite components; otherwise Frame B scaled, for a solar
\* member that has it; otherwise the record is rejected.
ReconciliationPolicy ==
    kind = "scan" =>
      \A i \in 1..Len(planets) : PosOf(i) = Reconcile(planets[i])

\* C6: a record without a valid frame is never returned by nearest.
NoZeroPositionFallback ==
    (kind # "idle" /\ ret # None) => Reconcile(ret[1].planet) # None

TierOrdering ==
    \A i \in 1..(NumTiers - 1) :
      (\E s \in Tiers[i + 1] : shardState[s] # "pending") => tierState[i] = "loaded"

\* the far tier is being fetched
TierOrderingWitness ==
    /\ shardState["far_quad1"] = "fetching"
    /\ tierState[2] = "loaded"

\* the records of a fetched shard that can be reconciled are all in the store
ShardIngested(s) ==
    \A k \in 1..Len(ShardPayload(s)) :
      Reconcile(ShardPayload(s)[k]) # None => Key(ShardPayload(s)[k]) \in Keys(planets)

\* C11: a tier is marked loaded only after every shard of it has been fetched
\* or has failed, all fetches joined, and every record of every fetched shard
\* has gone through reconciliation, identity check and insertion.
TierCompletion ==
    \A i \in 1..NumTiers :
      tierState[i] = "loaded" =>
        \A s \in Tiers[i] :
          /\ shardState[s] \in {"done", "failed"}
          /\ shardState[s] = "done" => ShardIngested(s)

\* the nearest tier is complete with one shard skipped and the other ingested
TierCompletionWitness ==
    /\ tierState[1] = "loaded"
    /\ shardState["nearby_quad1"] = "failed"
    /\ shardState["nearby_quad2"] = "done"
    /\ KeplerB \in Range(planets)

\* C12: when the manifest fetch fails no tier payload is ever fetched, the
\* load ends in the error state, and the caller shows the error instead of
\* going on to the ready state.
ManifestFailureFatal ==
    manifest = "failed" =>
      /\ pc = "error"
      /\ loadingManager.status = "Error Loading"
      /\ ~loadingManager.isReadyToFinish
      /\ ~animating
      /\ \A s \in Shards : shardState[s] = "pending"
      /\ \A i \in 1..NumTiers : tierState[i] = "pending"
      /\ planets = <<>>

\* the manifest failed and time has passed since
ManifestFailureWitness ==
    /\ manifest = "failed"
    /\ loadingManager.status = "Error Loading"
    /\ now = StartTime + MaxTicks * TickMs

\* C13: a shard whose fetch fails is skipped: the other shards of its tier and
\* all later tiers are still processed, the load goes on to the state where
\* all tiers are loaded, and the records of all other shards are in the store.
ShardFailureNonFatal ==
    /\ [](pc = "allLoaded" =>
            \A s \in Shards :
              /\ shardState[s] \in {"done", "failed"}
              /\ shardState[s] = "done" => ShardIngested(s))
    /\ (pc \in {"loadingNearby", "loadingAll"}) ~> (pc = "allLoaded")

\* all tiers are loaded although a shard of the first tier and the shard of
\* the last tier failed; the shards fetched hold their records in the store
ShardFailureWitness ==
    /\ pc = "allLoaded"
    /\ shardState["nearby_quad1"] = "failed"
    /\ shardState["far_quad1"] = "failed"
    /\ shardState["nearby_quad2"] = "done"
    /\ shardState["medium_quad1"] = "done"
    /\ {KeplerB, KeplerB2, TauB} \subseteq Range(planets)

\* C14: the first read of the store for interactive use, that is the start of
\* the frame loop with its queries and the first list render, happens only
\* after the nearest tier is loaded; the remaining tiers are started after
\* that, by a load sequence of the selector.
NearestTierFirst ==
    /\ (reloads = 0 /\ animating) => tierState[1] = "loaded"
    /\ (reloads = 0 /\ pc \in {"loadingAll", "allLoaded"}) => tierState[1] = "loaded"
    /\ \A i \in 2..NumTiers :
         (\E s \in Tiers[i] : shardState[s] # "pending") =>
           (tierState[1] = "loaded" /\ generation >= 1)

TruePos(i) == Reconcile(planets[i])

\* the distance from the query point to the i-th stored record
TrueDist(i) == distanceTo(callPos, TruePos(i)[1])

\* the i-th stored record has a valid position strictly within the radius
Within(i) == TruePos(i) # None /\ TrueDist(i) < searchRadius

\* C16: when some stored record with a valid position lies strictly within
\* searchRadius of the query point, a scanning call returns a record at the
\* minimum distance over all such records, and of the records at that distance
\* the first in store order.
NearestIsMinimum ==
    (kind = "scan" /\ \E i \in 1..Len(planets) : Within(i)) =>
      /\ ret # None
      /\ \E i \in 1..Len(planets) :
           /\ Within(i)
           /\ planets[i] = ret[1].planet
           /\ ret[1].distance = TrueDist(i)
           /\ \A j \in 1..Len(planets) :
                Within(j) => \/ TrueDist(i) < TrueDist(j)
                             \/ TrueDist(i) = TrueDist(j) /\ i <= j

\* C17: a scanning call returns none when the store is empty and when no
\* stored record lies strictly within searchRadius of the query point.
NoneCases ==
    (kind = "scan" /\ \A i \in 1..Len(planets) : ~Within(i)) => ret = None

\* the canonical key a result denotes; none for no result
KeyOf(result) == IF result = None THEN None ELSE Some(Key(result[1].planet))

\* C18: the change test is false when the previous and the current result
\* denote the same canonical key (display name, host designation) or are both
\* none, and true when exactly one is none or the keys differ, whatever the
\* distances.
ChangeByIdentity ==
    kind = "compared" => (changed <=> KeyOf(lastClosestPlanet) # KeyOf(current))

\* C19: after reset(), until a scan runs again, the cache is empty and a
\* throttled call returns none, not the result cached before the reset.
ResetClearsCache ==
    lastReset.pending =>
      /\ lastClosestPlanet = None
      /\ kind = "throttled" => ret = None

\* the store was torn down, reset() dropped a cached result, and the throttled
\* call that follows returns none
ResetClearsCacheWitness ==
    /\ reloads = 1
    /\ planets = <<>>
    /\ lastReset.pending
    /\ lastReset.dropped
    /\ kind = "throttled"
    /\ ret = None

\* the records offered to the present store: the seed if it was loaded, and
\* the payload of every shard fetched
SourceRecords ==
    (IF seeded THEN Range(SolarSeed) ELSE {})
      \cup UNION {Range(ShardPayload(s)) : s \in {t \in Shards : shardState[t] = "done"}}

ExpectedKeys == {Key(r) : r \in {x \in SourceRecords : Reconcile(x) # None}}

OrderIndependenceWitnessOther ==
    /\ pc = "allLoaded"
    /\ seeded
    /\ \A s \in Shards : shardState[s] = "done"
    /\ planets[2] = ProximaB
    /\ planets[3] = KeplerB

\* C22: admission of a record is one step without suspension: whenever a
\* reader runs, every stored record is a whole record of the seed or of a
\* shard that was fetched, every record of a fetched shard has been through
\* admission, and nothing of a shard still in flight is visible.
AtomicAdmission ==
    kind \in {"scan", "throttled"} =>
      /\ Range(planets) \subseteq SourceRecords
      /\ \A s \in Shards : shardState[s] = "done" => ShardIngested(s)
      /\ (kind = "scan" /\ ret # None) => ret[1].planet \in SourceRecords

\* a scan runs while the medium shard is in flight: it sees the near tier
\* whole and nothing of the medium shard
AtomicAdmissionWitness ==
    /\ kind = "scan"
    /\ ret # None
    /\ shardState["medium_quad1"] = "fetching"
    /\ shardState["nearby_quad1"] = "done"
    /\ shardState["nearby_quad2"] = "done"
    /\ {ProximaB, KeplerB} \subseteq Range(planets)
    /\ KeplerB2 \notin Range(planets)

\* C23: a recoverable failure never crosses into the callers.  The step in
\* which a shard fetch fails changes nothing but that shard's state: no promise
\* of the loader rejects, the position of the callers, the loading screen and
\* the rendered list are untouched.  A record that cannot be reconciled does
\* not stop its shard.  After either failure the callers are never in the
\* error state reserved for the manifest: the only effect is fewer records.
NoThrowAcrossBoundary ==
    /\ [][(\E s \in Shards : shardState[s] = "fetching" /\ shardState'[s] = "failed")
            => /\ planets' = planets
               /\ tierState' = tierState
               /\ pc' = pc
               /\ loadingManager' = loadingManager
               /\ filteredPlanets' = filteredPlanets
               /\ animating' = animating
               /\ manifest' = manifest]_vars
    /\ [](\A s \in Shards : shardState[s] = "done" => ShardIngested(s))
    /\ []((\E s \in Shards : shardState[s] \in {"done", "failed"})
            => /\ pc # "error"
               /\ loadingManager.status # "Error Loading"
               /\ \A i \in 1..NumTiers : tierState[i] \in {"pending", "loading", "loaded"})

\* a shard of the background load failed and another held a record that was
\* dropped; the frame loop still gets answers and the load went on to its end
NoThrowWitness ==
    /\ shardState["far_quad1"] = "failed"
    /\ shardState["medium_quad1"] = "done"
    /\ Rogue \notin Range(planets)
    /\ TauB \in Range(planets)
    /\ pc = "allLoaded"
    /\ loadingManager.status = "Starting Mission"
    /\ kind = "scan"
    /\ ret # None

NameOf(result) == IF result = None THEN None ELSE Some(result[1].planet.pl_name)

\* C25: when the caller passes the value just returned by getClosestPlanet to
\* hasClosestPlanetChanged, the answer is true exactly when that value and the
\* value returned by the caller's preceding call denote different objects, or
\* exactly one of them is none.
QueryThenCompare ==
    [][(kind \in {"scan", "throttled"} /\ kind' = "compared" /\ current' = ret)
         => (changed' <=> NameOf(ret) # NameOf(preceding))]_vars

\* C26: every result a scan produces is consistent: its worldPosition is the
\* position derived from the returned planet's own coordinates, its distance
\* is the distance from the query point to that position and is below the
\* search radius, and its mesh is null or a mesh of the field made for a
\* record with the returned planet's name.
ResultConsistency ==
    (kind = "scan" /\ ret # None) =>
      LET r == ret[1]
      IN  /\ r.planet \in Range(planets)
          /\ planetWorldPos(r.planet) = Some(r.worldPosition)
          /\ r.distance = distanceTo(callPos, r.worldPosition)
          /\ r.distance < searchRadius
          /\ \/ r.mesh = None
             \/ /\ r.mesh[1] \in Range(meshGroup)
                /\ r.mesh[1].planetData.pl_name = r.planet.pl_name

\* the scan met a farther planet that has a mesh first and returned a nearer
\* one that has none
ResultConsistencyWitness ==
    /\ kind = "scan"
    /\ planets = <<KeplerB2, ProximaB>>
    /\ callPos = Origin
    /\ ret # None
    /\ ret[1].planet = ProximaB
    /\ ret[1].mesh = None

\* the scan returned a planet together with its mesh
ResultWithMeshWitness ==
    /\ kind = "scan"
    /\ ret # None
    /\ ret[1].planet = KeplerB2
    /\ ret[1].mesh = Some(Mesh("m3", "Kepler b"))

\* C27: showStartButton runs only when finish() has been called and at least
\* minimumLoadTime has elapsed since start(); it runs at most once per load;
\* and once finish() has been called with the progress interval still set, it
\* is eventually run.
StartButtonGating ==
    /\ [][loading'.shown # loading.shown
            => /\ loading'.finishCalls > 0
               /\ now' - loading'.startTime >= minimumLoadTime]_vars
    /\ [](Len(loading.shown) <= 1)
    /\ (loading.finishCalls > 0 /\ loading.progressAnimationId)
         ~> (Len(loading.shown) = 1)

\* finish() came before the minimum time had passed and the interval
\* callback showed the button later
StartButtonByIntervalWitness ==
    /\ initPc = "finished"
    /\ loading.shown = <<"interval">>
    /\ ~loading.progressAnimationId
    /\ now - loading.startTime >= minimumLoadTime

\* finish() came after the minimum time and showed the button itself
StartButtonByFinishWitness ==
    /\ initPc = "finished"
    /\ loading.shown = <<"finish">>

StepNames == <<"Engine", "Controls", "Universe", "Animation">>

\* C28: App.init completes the steps Engine, Controls, Universe, Animation in
\* that order and never more than totalSteps of them; finish() is called only
\* after all four; and error() and finish() are never both called in one run:
\* the error state and the ready state exclude each other.
InitProtocol ==
    /\ \E n \in 0..Len(StepNames) : loading.completed = SubSeq(StepNames, 1, n)
    /\ initPc # "constructed" =>
         /\ loading.totalSteps = totalSteps
         /\ Len(loading.completed) <= loading.totalSteps
    /\ loading.finishCalls > 0 => loading.completed = StepNames
    /\ ~(loading.finishCalls > 0 /\ loading.errorCalls > 0)
    /\ loading.finishCalls <= 1 /\ loading.errorCalls <= 1
    /\ ~(loading.isReadyToFinish /\ loading.status = "Error Loading")
    /\ initPc = "finished" <=> loading.finishCalls = 1
    /\ initPc = "failed" <=> loading.errorCalls = 1

\* all four steps were completed and finish() was called
InitProtocolWitness ==
    /\ initPc = "finished"
    /\ loading.completed = StepNames
    /\ loading.finishCalls = 1
    /\ loading.isReadyToFinish

\* setupUIControls() or animate() threw after three steps: error(), no finish()
InitFailedWitness ==
    /\ initPc = "failed"
    /\ Len(loading.completed) = 3
    /\ loading.errorCalls = 1
    /\ loading.status = "Error Loading"
    /\ ~loading.progressAnimationId

\* C29: once the nearest-tier load and the background load have completed,
\* however the user's filter changes were interleaved with them, the rendered
\* list is the filter result for the criteria currently set, over the store.
FilterFollowed ==
    pc = "allLoaded" => filteredPlanets = filter(planets, criteria)

\* C30: chatHistory is empty whenever the dialog is hidden, and while the
\* dialog shows a planet it holds only messages exchanged during the present
\* showing of that planet: a reply that arrives after hide(), or after show()
\* of another planet, is not appended.
ChatBelongsToShown ==
    /\ ~dialog.visible => dialog.chatHistory = <<>>
    /\ dialog.visible =>
         \A k \in 1..Len(dialog.chatHistory) :
           /\ dialog.chatHistory[k].showing = dialog.showing
           /\ dialog.chatHistory[k].planet = dialog.currentPlanet[1].pl_name

====
